---- MODULE Spec2Model ----
(***************************************************************************)
(* Model of the content-tag preprocessor: Preprocessor::process and        *)
(* Preprocessor::locate (src/src/lib.rs) and TransformVisitor with         *)
(* escape_template_literal (src/src/transform.rs).                         *)
(*                                                                         *)
(* The syntax tree is a tree of records tagged by k.  Strings of template  *)
(* content are sequences of one-character strings.  Identifiers carry the  *)
(* symbol and whether their syntax context is the private mark made by     *)
(* private_ident! (priv); every identifier that comes from the parser has  *)
(* the empty context.                                                      *)
(***************************************************************************)
EXTENDS Integers, Sequences, FiniteSets, TLC

VARIABLES
    pc,             \* "input", "processed", "visited", "located" for a file; "text", "escaped" for a string
    parsed_module,  \* the module the next operation reads (the parse of the current source)
    prev_module,    \* the module the last operation read
    options,        \* Options: [transformer]
    runs,           \* how many rewriting operations ran on this file
    last,           \* what the last operation returned or reported
    infos,          \* the Vec<ContentTagInfo> returned by locate
    input,          \* the String handed to escape_template_literal
    escaped         \* the Atom it returned

vars == <<pc, parsed_module, prev_module, options, runs, last, infos, input, escaped>>

\* ------------------------------------------------------------------ bounds

\* Longest module body of an input file, in module items after the leading import.
MaxItems == 2
\* How many times in a row a file is rewritten (the output of one run is the next run's source).
MaxRuns == 2
\* Longest string handed to escape_template_literal on its own.
MaxLen == 3

\* -------------------------------------------------------------- constants

target_specifier == "template"
target_module == "@ember/template-compiler"

\* ------------------------------------------------------------- the syntax

Ident(sym) == [k |-> "Ident", sym |-> sym, priv |-> FALSE]

None == [k |-> "None"]

\* An occurrence <template>contents</template> whose first character is at lo.
TagSpans(lo, contents) ==
    [span     |-> <<lo, lo + 10 + Len(contents) + 11>>,
     opening  |-> [span |-> <<lo, lo + 10>>],
     contents |-> [span |-> <<lo + 10, lo + 10 + Len(contents)>>, value |-> contents],
     closing  |-> [span |-> <<lo + 10 + Len(contents), lo + 10 + Len(contents) + 11>>]]

ContentTagExpression(lo, contents) ==
    [k |-> "ContentTagExpression"] @@ TagSpans(lo, contents)

ContentTagMember(lo, contents) ==
    [k |-> "ContentTagMember"] @@ TagSpans(lo, contents)

Call(callee, args) == [k |-> "Call", callee |-> callee, args |-> args]
ClassExpr(members) == [k |-> "Class", members |-> members]
FnExpr(params, body) == [k |-> "Fn", params |-> params, body |-> body]
ClassProp(key, value) == [k |-> "ClassProp", key |-> key, value |-> value]
ExprStmt(expr) == [k |-> "ExprStmt", expr |-> expr]
BlockStmt(stmts) == [k |-> "Block", stmts |-> stmts]
VarDecl(name, init) == [k |-> "VarDecl", name |-> name, init |-> init]
ClassDecl(ident, members) == [k |-> "ClassDecl", ident |-> ident, members |-> members]
FnDecl(ident, params, body) == [k |-> "FnDecl", ident |-> ident, params |-> params, body |-> body]
ReturnStmt(arg) == [k |-> "Return", arg |-> arg]
TsModuleDecl(id, body) == [k |-> "TsModule", id |-> id, body |-> body]
ImportNamed(local, imported) == [k |-> "ImportNamed", local |-> local, imported |-> imported]
ImportDefault(local) == [k |-> "ImportDefault", local |-> local]
ImportDecl(src, specifiers) == [k |-> "Import", src |-> src, specifiers |-> specifiers]
ModuleExportNameIdent(sym) == [k |-> "ExportNameIdent", sym |-> sym]
ModuleExportNameStr(value) == [k |-> "ExportNameStr", value |-> value]
\* What parser.parse_module() returns for a source it rejects.
ParseError(kind) == [k |-> "ParseError", error |-> kind]
Module(body) == [k |-> "Module", body |-> body]

\* The children of a node, in document order, and the node with new children.
Kids(n) ==
    CASE n.k = "Call" -> <<n.callee>> \o n.args
      [] n.k = "Class" -> n.members
      [] n.k = "Fn" -> n.params \o n.body
      [] n.k = "ClassProp" -> <<n.value>>
      [] n.k = "StaticBlock" -> n.body.stmts
      [] n.k = "ExprStmt" -> <<n.expr>>
      [] n.k = "Block" -> n.stmts
      [] n.k = "VarDecl" -> <<n.name, n.init>>
      [] n.k = "ClassDecl" -> <<n.ident>> \o n.members
      [] n.k = "FnDecl" -> <<n.ident>> \o n.params \o n.body
      [] n.k = "Return" -> <<n.arg>>
      [] n.k = "TsModule" -> n.body
      [] n.k = "Import" -> n.specifiers
      [] n.k = "ImportNamed" -> <<n.local>>
      [] n.k = "ImportDefault" -> <<n.local>>
      [] n.k = "ExportDefaultExpr" -> <<n.expr>>
      [] n.k = "Module" -> n.body
      [] OTHER -> <<>>

WithKids(n, ks) ==
    CASE n.k = "Call" -> [n EXCEPT !.callee = ks[1], !.args = Tail(ks)]
      [] n.k = "Class" -> [n EXCEPT !.members = ks]
      [] n.k = "Fn" ->
            [n EXCEPT !.params = SubSeq(ks, 1, Len(n.params)),
                      !.body = SubSeq(ks, Len(n.params) + 1, Len(ks))]
      [] n.k = "ClassProp" -> [n EXCEPT !.value = ks[1]]
      [] n.k = "StaticBlock" -> [n EXCEPT !.body.stmts = ks]
      [] n.k = "ExprStmt" -> [n EXCEPT !.expr = ks[1]]
      [] n.k = "Block" -> [n EXCEPT !.stmts = ks]
      [] n.k = "VarDecl" -> [n EXCEPT !.name = ks[1], !.init = ks[2]]
      [] n.k = "ClassDecl" -> [n EXCEPT !.ident = ks[1], !.members = Tail(ks)]
      [] n.k = "FnDecl" ->
            [n EXCEPT !.ident = ks[1],
                      !.params = SubSeq(ks, 2, Len(n.params) + 1),
                      !.body = SubSeq(ks, Len(n.params) + 2, Len(ks))]
      [] n.k = "Return" -> [n EXCEPT !.arg = ks[1]]
      [] n.k = "TsModule" -> [n EXCEPT !.body = ks]
      [] n.k = "Import" -> [n EXCEPT !.specifiers = ks]
      [] n.k = "ImportNamed" -> [n EXCEPT !.local = ks[1]]
      [] n.k = "ImportDefault" -> [n EXCEPT !.local = ks[1]]
      [] n.k = "ExportDefaultExpr" -> [n EXCEPT !.expr = ks[1]]
      [] n.k = "Module" -> [n EXCEPT !.body = ks]
      [] OTHER -> n

\* ------------------------------------------------------- ContentEscaper

\* The characters of template content.  A string is a sequence of characters; the
\* backtick is written by name.
BACKSLASH == "\\"
BACKTICK == "backtick"
DOLLAR == "$"

\* str::replace for a one-character pattern.
RECURSIVE replace(_, _, _)
replace(s, from, to) ==
    IF s = <<>> THEN <<>>
    ELSE (IF Head(s) = from THEN to ELSE <<Head(s)>>) \o replace(Tail(s), from, to)

\* The three substitutions with the backslash handled last.
escape_backslash_last(s) ==
    replace(replace(replace(s, BACKTICK, <<BACKSLASH, BACKTICK>>),
                    DOLLAR, <<BACKSLASH, DOLLAR>>),
            BACKSLASH, <<BACKSLASH, BACKSLASH>>)

escape_template_literal(s) ==
    replace(replace(replace(s, BACKSLASH, <<BACKSLASH, BACKSLASH>>),
                    BACKTICK, <<BACKSLASH, BACKTICK>>),
            DOLLAR, <<BACKSLASH, DOLLAR>>)

\* --------------------------------------------------- ScopeSnippetBuilder

\* The object literal { eval() { return eval(arguments[0]) } }.
scope_params(span) == [k |-> "Object", span |-> span, props |-> <<"eval">>]

\* The object literal { component: this, eval() { return eval(arguments[0]) } }.
scope_params_with_this(span) == [k |-> "Object", span |-> span, props |-> <<"component", "eval">>]

\* ----------------------------------------------------- TransformVisitor

\* The content transformers a caller may configure: options.transformer is None or
\* Some of one of these functions from text to text.
Transformers == {"quote", "throws", "number"}

JsString(text) == [k |-> "String", text |-> text]

\* js_function.call1(&null, &js_in_string): what the caller's function does with s.
\* "quote" wraps the text in backticks; the other two return text without a dollar
\* sign as it is and, given one, throw or return a number.
js_call1(t, s) ==
    CASE t = "quote" -> [threw |-> FALSE, value |-> JsString(<<BACKTICK>> \o s \o <<BACKTICK>>)]
      [] t = "throws" /\ \E i \in DOMAIN s : s[i] = DOLLAR ->
            [threw |-> TRUE, value |-> [k |-> "Undefined", text |-> <<>>]]
      [] t = "number" /\ \E i \in DOMAIN s : s[i] = DOLLAR ->
            [threw |-> FALSE, value |-> [k |-> "Number", text |-> <<>>]]
      [] OTHER -> [threw |-> FALSE, value |-> JsString(s)]

\* The closure of convert_js_transformer panics when the call threw or when
\* v.as_string() is None; otherwise it returns the string.
transformer_panics(t, s) == js_call1(t, s).threw \/ js_call1(t, s).value.k # "String"

call_transformer(t, s) == js_call1(t, s).value.text

\* TransformVisitor::new: the visitor's fields.  found_it is Option<&mut bool>.
\* calls is what the caller of options.transformer has seen of it so far: the
\* arguments of its calls, in order.  panicked: the transformer's closure panicked;
\* the panic leaves the traversal, whose later steps no longer call the transformer
\* and whose tree nobody gets.
TransformVisitor(id, found_it, opts) ==
    [template_identifier |-> id, found_it |-> found_it, options |-> opts,
     calls |-> <<>>, panicked |-> FALSE]

SomeFlag(b) == [some |-> TRUE, flag |-> b]
NoFlag == [some |-> FALSE, flag |-> FALSE]

set_found_it(v) ==
    IF v.found_it.some THEN [v EXCEPT !.found_it.flag = TRUE] ELSE v

\* The literal of one quasi whose raw text is content.
Tpl(span, content) ==
    [k |-> "Tpl", span |-> span,
     quasis |-> <<[span |-> span, raw |-> content, tail |-> FALSE]>>]

\* A content_literal that hands the transformer the text already escaped.
content_literal_escape_first(v, contents) ==
    IF v.options.transformer # None
    THEN [n |-> Tpl(contents.span,
                    call_transformer(v.options.transformer.f,
                                     escape_template_literal(contents.value))),
          v |-> [v EXCEPT !.calls = Append(@, escape_template_literal(contents.value))]]
    ELSE [n |-> Tpl(contents.span, escape_template_literal(contents.value)), v |-> v]

\* Returns [n |-> the literal, v |-> the visitor, its transformer called or not].
content_literal(v, contents) ==
    IF v.panicked THEN [n |-> None, v |-> v]
    ELSE IF /\ v.options.transformer # None
            /\ transformer_panics(v.options.transformer.f, contents.value)
    THEN [n |-> None,
          v |-> [v EXCEPT !.calls = Append(@, contents.value), !.panicked = TRUE]]
    ELSE IF v.options.transformer # None
    THEN [n |-> Tpl(contents.span,
                    escape_template_literal(
                        call_transformer(v.options.transformer.f, contents.value))),
          v |-> [v EXCEPT !.calls = Append(@, contents.value)]]
    ELSE [n |-> Tpl(contents.span, escape_template_literal(contents.value)), v |-> v]

\* The call of the template identifier on a literal and a scope-capture object.
CallExpr(v, n, lit, params) ==
    [n |-> [k |-> "Call", span |-> n.span, callee |-> v.template_identifier,
            args |-> <<lit.n, params>>],
     v |-> lit.v]

\* Returns [n |-> the call, v |-> the visitor as content_literal left it].
transform_tag_expression(v, expr) ==
    CallExpr(v, expr, content_literal(v, expr.contents), scope_params(expr.closing.span))

content_tag_expression_statement(item) ==
    IF item.k = "ExprStmt" /\ item.expr.k = "ContentTagExpression" THEN item.expr ELSE None

\* The node kinds that are Expr and the ones that are ClassMember.
ExprKinds == {"ContentTagExpression", "Ident", "Call", "Class", "Fn", "Tpl", "Object", "Lit"}
ClassMemberKinds == {"ContentTagMember", "ClassProp", "StaticBlock"}

\* The static block of one statement, the call; call_expr is [n |-> call, v |-> visitor].
StaticBlock(n, call_expr) ==
    [n |-> [k |-> "StaticBlock", span |-> n.opening.span,
            body |-> [span |-> n.span,
                      stmts |-> <<[k |-> "ExprStmt", span |-> n.span,
                                   expr |-> call_expr.n]>>]],
     v |-> call_expr.v]

\* self.set_found_it() after a replacement res = [n |-> node, v |-> visitor].
found_it_set(res) == [n |-> res.n, v |-> set_found_it(res.v)]

\* A static block whose call captures the scope as an expression occurrence does.
static_block_without_this(v, n) ==
    StaticBlock(n, CallExpr(v, n, content_literal(v, n.contents),
                            scope_params(n.closing.span)))

\* The static block that replaces a class-member occurrence.
static_block_for(v, n) ==
    StaticBlock(n, CallExpr(v, n, content_literal(v, n.contents),
                            scope_params_with_this(n.closing.span)))

\* The default export of a call; call_expr is [n |-> call, v |-> visitor].
ExportDefaultExpr(content_tag, call_expr) ==
    [n |-> [k |-> "ExportDefaultExpr", span |-> content_tag.span, expr |-> call_expr.n],
     v |-> call_expr.v]

\* The loop of visit_mut_module_items: a bare occurrence statement becomes a default export.
RECURSIVE promote_items(_, _)
promote_items(items, v) ==
    IF items = <<>> THEN [n |-> <<>>, v |-> v]
    ELSE LET item == Head(items)
             content_tag == content_tag_expression_statement(item)
             h == IF content_tag # None
                  THEN found_it_set(ExportDefaultExpr(content_tag,
                                               transform_tag_expression(v, content_tag)))
                  ELSE [n |-> item, v |-> v]
             t == promote_items(Tail(items), h.v)
         IN  [n |-> <<h.n>> \o t.n, v |-> t.v]

\* The visitor.  Every operator returns [n |-> the node as left, v |-> the visitor as left].
RECURSIVE visit_mut(_, _)
RECURSIVE visit_mut_seq(_, _)
RECURSIVE visit_mut_module_items(_, _)
RECURSIVE visit_mut_children_with(_, _)

visit_mut_seq(ns, v) ==
    IF ns = <<>> THEN [n |-> <<>>, v |-> v]
    ELSE LET h == visit_mut(Head(ns), v)
             t == visit_mut_seq(Tail(ns), h.v)
         IN  [n |-> <<h.n>> \o t.n, v |-> t.v]

\* The generated traversal: a Vec<ModuleItem> (the body of a Module and of a
\* TsModuleBlock) is handed to visit_mut_module_items, any other child to its hook.
visit_mut_children_with(n, v) ==
    IF n.k \in {"Module", "TsModule"}
    THEN LET r == visit_mut_module_items(n.body, v)
         IN  [n |-> [n EXCEPT !.body = r.n], v |-> r.v]
    ELSE LET r == visit_mut_seq(Kids(n), v)
         IN  [n |-> WithKids(n, r.n), v |-> r.v]

\* An expression hook that reports a replacement for every expression it sees.
visit_mut_expr_flags_always(n, v) ==
    LET r == visit_mut_children_with(n, v)
    IN  IF r.n.k = "ContentTagExpression"
        THEN found_it_set(transform_tag_expression(r.v, r.n))
        ELSE [n |-> r.n, v |-> set_found_it(r.v)]

visit_mut_expr(n, v) ==
    LET r == visit_mut_children_with(n, v)
    IN  IF r.n.k = "ContentTagExpression"
        THEN found_it_set(transform_tag_expression(r.v, r.n))
        ELSE r

\* A class-member hook that replaces the occurrence and reports nothing.
visit_mut_class_member_silent(n, v) ==
    LET r == visit_mut_children_with(n, v)
    IN  IF r.n.k = "ContentTagMember"
        THEN static_block_for(r.v, r.n)
        ELSE r

visit_mut_class_member(n, v) ==
    LET r == visit_mut_children_with(n, v)
    IN  IF r.n.k = "ContentTagMember"
        THEN found_it_set(static_block_for(r.v, r.n))
        ELSE r

visit_mut(n, v) ==
    IF n.k \in ExprKinds THEN visit_mut_expr(n, v)
    ELSE IF n.k \in ClassMemberKinds THEN visit_mut_class_member(n, v)
    ELSE visit_mut_children_with(n, v)

visit_mut_module_items(items, v) ==
    LET items_updated == promote_items(items, v)
    IN  visit_mut_seq(items_updated.n, items_updated.v)

\* parsed_module.visit_mut_with(&mut as_folder(visitor)).
visit_mut_with(m, v) == visit_mut(m, v)

\* ------------------------------------------------- ScopeAwareImportResolver

\* A lookup that compares the local name where the imported name is meant.
RECURSIVE find_in_specifiers_by_local(_, _)
find_in_specifiers_by_local(specifiers, specifier) ==
    IF specifiers = <<>> THEN None
    ELSE IF Head(specifiers).k = "ImportNamed" /\ Head(specifiers).local.sym = specifier
         THEN Head(specifiers).local
         ELSE find_in_specifiers_by_local(Tail(specifiers), specifier)

\* The inner loop of find_existing_import over one declaration's specifiers.
RECURSIVE find_in_specifiers(_, _)
find_in_specifiers(specifiers, specifier) ==
    IF specifiers = <<>> THEN None
    ELSE LET s == Head(specifiers)
             imported == IF s.k # "ImportNamed" THEN None
                         ELSE IF s.imported.k = "ExportNameIdent" THEN s.imported.sym
                         ELSE IF s.imported.k = "ExportNameStr" THEN s.imported.value
                         ELSE s.local.sym
         IN  IF s.k = "ImportNamed" /\ imported = specifier THEN s.local
             ELSE find_in_specifiers(Tail(specifiers), specifier)

RECURSIVE find_in_items(_, _, _)
find_in_items(items, module_name, specifier) ==
    IF items = <<>> THEN None
    ELSE LET item == Head(items)
             found == IF item.k = "Import" /\ item.src = module_name
                      THEN find_in_specifiers(item.specifiers, specifier)
                      ELSE None
         IN  IF found # None THEN found
             ELSE find_in_items(Tail(items), module_name, specifier)

find_existing_import(m, module_name, specifier) ==
    find_in_items(m.body, module_name, specifier)

\* An identifier made without a mark of its own.
unmarked_ident(sym) == [k |-> "Ident", sym |-> sym, priv |-> FALSE]

\* private_ident!(sym): the symbol under a fresh mark no parsed identifier carries.
private_ident(sym) == [k |-> "Ident", sym |-> sym, priv |-> TRUE]

insert_import(m, module_name, specifier, local) ==
    [m EXCEPT !.body =
        <<ImportDecl(module_name, <<ImportNamed(local, ModuleExportNameIdent(specifier))>>)>> \o @]

\* ------------------------------------------------------- resolver + hygiene

\* The identifiers of a tree.
RECURSIVE IdentsOf(_)
IdentsOf(n) ==
    IF n.k = "Ident" THEN {n}
    ELSE UNION {IdentsOf(Kids(n)[i]) : i \in 1..Len(Kids(n))}

\* The node with every identifier equal to `from` replaced by `to`.
RECURSIVE rename(_, _, _)
rename(n, from, to) ==
    IF n.k = "Ident" THEN (IF n = from THEN to ELSE n)
    ELSE IF Kids(n) = <<>> THEN n
    ELSE WithKids(n, [i \in 1..Len(Kids(n)) |-> rename(Kids(n)[i], from, to)])

\* The names a node declares in the scope it opens (parameters and the
\* declarations among its statements), or {} when it opens no scope.
DeclaredBy(stmts) ==
    {stmts[i].ident : i \in {j \in 1..Len(stmts) : stmts[j].k \in {"FnDecl", "ClassDecl"}}}
    \cup {stmts[i].name : i \in {j \in 1..Len(stmts) : stmts[j].k = "VarDecl"}}
    \cup UNION {{stmts[i].specifiers[j].local : j \in 1..Len(stmts[i].specifiers)} :
                i \in {j \in 1..Len(stmts) : stmts[j].k = "Import"}}

ScopeDecls(n) ==
    CASE n.k \in {"Fn", "FnDecl"} -> {n.params[i] : i \in 1..Len(n.params)} \cup DeclaredBy(n.body)
      [] n.k \in {"Block", "Module", "TsModule"} -> DeclaredBy(Kids(n))
      [] n.k = "StaticBlock" -> DeclaredBy(n.body.stmts)
      [] OTHER -> {}

\* Some scope of the tree declares a parsed identifier with the symbol of `id` while
\* `id` itself is used or declared inside that scope: hygiene has to tell them apart.
RECURSIVE Shadowed(_, _)
Shadowed(n, id) ==
    \/ /\ id \in IdentsOf(n)
       /\ \E d \in ScopeDecls(n) : d.sym = id.sym /\ d # id
    \/ \E i \in 1..Len(Kids(n)) : Shadowed(Kids(n)[i], id)

\* The first of sym1, sym2, ... that no identifier of the module uses.
RECURSIVE fresh_sym(_, _, _)
fresh_sym(sym, used, i) ==
    IF (sym \o ToString(i)) \notin used THEN sym \o ToString(i)
    ELSE fresh_sym(sym, used, i + 1)

\* resolver followed by hygiene_with_config.  Parsed identifiers keep their names.
\* An identifier made by private_ident! keeps its symbol unless a parsed identifier
\* uses the same symbol; it is then renamed where a scope it is used in declares
\* that symbol, and `eager` tells what the pass does where the symbol is only used
\* in scopes the private identifier is not used in.
hygiene(m, eager) ==
    LET privs == {i \in IdentsOf(m) : i.priv}
        used == {i.sym : i \in {j \in IdentsOf(m) : ~j.priv}}
    IN  IF privs = {} THEN m
        ELSE LET id == CHOOSE i \in privs : TRUE
             IN  IF id.sym \in used /\ (Shadowed(m, id) \/ eager)
                 THEN rename(m, id, [id EXCEPT !.sym = fresh_sym(id.sym, used, 1)])
                 ELSE m

\* ------------------------------------------------------- ImportSimplifier

\* A simplifier that drops the alias without comparing the two names.
simplify_specifier_any_alias(sp) ==
    IF /\ sp.k = "ImportNamed"
       /\ sp.imported.k = "ExportNameIdent"
    THEN [sp EXCEPT !.imported = None]
    ELSE sp

simplify_specifier(sp) ==
    IF /\ sp.k = "ImportNamed"
       /\ sp.imported.k = "ExportNameIdent"
       /\ sp.local.sym = sp.imported.sym
    THEN [sp EXCEPT !.imported = None]
    ELSE sp

simplify_imports(m) ==
    [m EXCEPT !.body =
        [i \in 1..Len(m.body) |->
            IF m.body[i].k = "Import"
            THEN [m.body[i] EXCEPT !.specifiers =
                    [j \in 1..Len(m.body[i].specifiers) |->
                        simplify_specifier(m.body[i].specifiers[j])]]
            ELSE m.body[i]]]

\* ------------------------------------------------------------- the emitter

\* Preprocessor::print, read back by the parser: the text holds each identifier's
\* symbol and nothing of its syntax context.
RECURSIVE print(_)
print(n) ==
    IF n.k = "Ident" THEN [n EXCEPT !.priv = FALSE]
    ELSE IF Kids(n) = <<>> THEN n
    ELSE WithKids(n, [i \in 1..Len(Kids(n)) |-> print(Kids(n)[i])])

\* ---------------------------------------------------- Preprocessor::process

\* A guard that forgets the import the file already has.
import_needed_ignoring_existing(had_id_already, needs_import) == needs_import

\* A guard that forgets whether anything was rewritten.
import_needed_whenever_missing(had_id_already, needs_import) == ~had_id_already

\* The test that guards insert_import.
import_needed(had_id_already, needs_import) == ~had_id_already /\ needs_import

\* found_id.unwrap_or_else(|| private_ident!(target_specifier)).
unwrap_or_private(found_id) ==
    IF found_id # None THEN found_id ELSE private_ident(target_specifier)

\* What process returns, with the values it computed on the way: the tree after the
\* visitor and insert_import (rewritten), after hygiene (hygienic), after
\* simplify_imports (module), and the text printed (output).
process_print(found_id, visited, with_import, clean, simplified) ==
    [op |-> "process", had_id_already |-> found_id # None, id |-> unwrap_or_private(found_id),
     outcome |-> "Ok", needs_import |-> visited.v.found_it.flag, calls |-> visited.v.calls,
     rewritten |-> with_import,
     hygienic |-> clean, module |-> simplified, output |-> print(simplified)]

process_simplify(found_id, visited, with_import, clean) ==
    process_print(found_id, visited, with_import, clean, simplify_imports(clean))

process_hygiene(found_id, visited, with_import, eager) ==
    process_simplify(found_id, visited, with_import, hygiene(with_import, eager))

\* A panic in the visitor unwinds out of process: it returns nothing and the tree,
\* a local of the closure, is gone.
process_panic(visited) ==
    [op |-> "process", outcome |-> "panic", calls |-> visited.v.calls, output |-> None]

\* A process that goes on with the tree it has after the transformer failed.
process_import_after_panic(found_id, visited, eager) ==
    process_hygiene(found_id, visited,
        IF import_needed(found_id # None, visited.v.found_it.flag)
        THEN insert_import(visited.n, target_module, target_specifier,
                           unwrap_or_private(found_id))
        ELSE visited.n,
        eager)

process_import(found_id, visited, eager) ==
    IF visited.v.panicked THEN process_panic(visited)
    ELSE process_hygiene(found_id, visited,
            IF import_needed(found_id # None, visited.v.found_it.flag)
            THEN insert_import(visited.n, target_module, target_specifier,
                               unwrap_or_private(found_id))
            ELSE visited.n,
            eager)

process_visit(m, opts, found_id, eager) ==
    process_import(found_id,
        visit_mut_with(m, TransformVisitor(unwrap_or_private(found_id), SomeFlag(FALSE), opts)),
        eager)

\* parser.parse_module()? on a source the parser rejects: the error is returned.
process_err(parsed) ==
    [op |-> "process", outcome |-> "Err", error |-> parsed.error, calls |-> <<>>,
     output |-> None]

\* Preprocessor::process; m is what parser.parse_module() makes of the source.
process(m, opts, eager) ==
    IF m.k = "ParseError" THEN process_err(m)
    ELSE process_visit(m, opts, find_existing_import(m, target_module, target_specifier),
                       eager)

\* ---------------------------------------------------------- LocateExtractor

ContentTagInfo(n) ==
    [start |-> n.span[1], content_start |-> n.contents.span[1],
     content_end |-> n.contents.span[2], end |-> n.span[2],
     tag_name |-> "template",
     tag_type |-> IF n.k = "ContentTagExpression" THEN "expression" ELSE "class-member",
     content |-> n.contents.value]

\* LocateVisitor: one record per occurrence, pushed in the order of the traversal.
RECURSIVE locate_visit(_)
RECURSIVE locate_visit_seq(_)
locate_visit_seq(ns) ==
    IF ns = <<>> THEN <<>> ELSE locate_visit(Head(ns)) \o locate_visit_seq(Tail(ns))

locate_visit(n) ==
    IF n.k \in {"ContentTagExpression", "ContentTagMember"} THEN <<ContentTagInfo(n)>>
    ELSE locate_visit_seq(Kids(n))

\* A locate that runs the rewriting visitor before the locating one.
locate_after_rewrite(m) ==
    locate_visit(visit_mut_with(m, TransformVisitor(Ident("template"), NoFlag,
                                                    [transformer |-> None])).n)

\* Preprocessor::locate on a module that parsed.
locate(m) == locate_visit(m)

\* ----------------------------------------------------------- the input files

Hello == <<"H", "i">>
Escapes == <<BACKSLASH, "n", BACKTICK, DOLLAR>>

\* The leading import declaration of an input file, if it has one.
Preludes == {"none", "named", "aliased", "string", "other_module"}

Prelude(p) ==
    CASE p = "named" ->
            <<ImportDecl(target_module, <<ImportNamed(Ident("template"), None)>>)>>
      [] p = "aliased" ->
            <<ImportDecl(target_module,
                <<ImportNamed(Ident("precompile"), None),
                  ImportNamed(Ident("t"), ModuleExportNameIdent("template"))>>)>>
      [] p = "string" ->
            <<ImportDecl(target_module,
                <<ImportDefault(Ident("template")),
                  ImportNamed(Ident("compile"), ModuleExportNameStr("compile")),
                  ImportNamed(Ident("tpl"), ModuleExportNameStr("template"))>>)>>
      [] p = "other_module" ->
            <<ImportDecl("other",
                <<ImportNamed(Ident("template"), ModuleExportNameIdent("template"))>>)>>
      [] OTHER -> <<>>

\* The module items an input file is made of; b is the offset the item starts at.
ItemKinds == {"bare", "let", "class", "block", "namespace", "fn_template", "param", "quiet"}

ItemAt(kind, b) ==
    CASE kind = "bare" -> ExprStmt(ContentTagExpression(b, Hello))
      [] kind = "let" ->
            VarDecl(Ident("x"),
                ClassExpr(<<ClassProp("thing",
                    Call(Ident("doIt"), <<ContentTagExpression(b + 30, Escapes)>>))>>))
      [] kind = "class" -> ClassDecl(Ident("X"), <<ContentTagMember(b + 10, Hello)>>)
      [] kind = "block" ->
            BlockStmt(<<ExprStmt(ContentTagExpression(b + 2, Hello)),
                        VarDecl(Ident("y"), ClassExpr(<<ContentTagMember(b + 50, Hello)>>))>>)
      [] kind = "namespace" ->
            TsModuleDecl("N", <<ExprStmt(ContentTagExpression(b + 14, Hello))>>)
      [] kind = "fn_template" -> FnDecl(Ident("template"), <<>>, <<>>)
      [] kind = "param" ->
            VarDecl(Ident("f"),
                FnExpr(<<Ident("template")>>,
                       <<ExprStmt(Call(Ident("log"), <<Ident("template")>>)),
                         ReturnStmt(ContentTagExpression(b + 60, Hello))>>))
      [] OTHER ->
            FnDecl(Ident("g"), <<Ident("template")>>,
                   <<ExprStmt(Call(Ident("template1"), <<Ident("x")>>))>>)

Bodies == UNION {[1..n -> ItemKinds] : n \in 0..MaxItems}

Input(p, kinds) == Module(Prelude(p) \o [i \in 1..Len(kinds) |-> ItemAt(kinds[i], 100 * i)])

Inputs == {Input(p, kinds) : p \in Preludes, kinds \in Bodies}

\* A source file the parser rejects.
Unparsable == ParseError("Unexpected token")

OptionsSet == {[transformer |-> None]}
              \cup {[transformer |-> [k |-> "Some", f |-> t]] : t \in Transformers}

Chars == {BACKSLASH, BACKTICK, DOLLAR, "n"}
Strings == UNION {[1..n -> Chars] : n \in 0..MaxLen}

\* ------------------------------------------------------------ the operations

NoResult == [op |-> "none"]

\* A source file, parsed, with the options of the Preprocessor that will read it.
InitFile ==
    /\ pc = "input"
    /\ parsed_module \in Inputs \cup {Unparsable}
    /\ options \in OptionsSet
    /\ input = <<>>

\* A string on its way to escape_template_literal.
InitText ==
    /\ pc = "text"
    /\ parsed_module = Module(<<>>)
    /\ options = [transformer |-> None]
    /\ input \in Strings

Init ==
    /\ InitFile \/ InitText
    /\ prev_module = parsed_module
    /\ runs = 0
    /\ last = NoResult
    /\ infos = <<>>
    /\ escaped = <<>>

\* Preprocessor::process; what it prints is the source of the next run, and a run
\* that prints nothing is the last one.
Process ==
    /\ pc \in {"input", "processed"}
    /\ runs < MaxRuns
    /\ \E eager \in BOOLEAN :
          LET r == process(parsed_module, options, eager)
          IN  /\ last' = r
              /\ parsed_module' = IF r.outcome = "Ok" THEN r.output ELSE parsed_module
              /\ pc' = IF r.outcome = "Ok" THEN "processed" ELSE "failed"
    /\ prev_module' = parsed_module
    /\ runs' = runs + 1
    /\ UNCHANGED <<options, infos, input, escaped>>

\* TransformVisitor applied on its own to a module, with or without a flag to set.
Visit ==
    /\ pc \in {"input", "visited"}
    /\ parsed_module.k = "Module"
    /\ runs < MaxRuns
    /\ \E found_it \in {NoFlag, SomeFlag(FALSE)} :
          LET r == visit_mut_with(parsed_module,
                                  TransformVisitor(Ident("template"), found_it, options))
          IN  /\ last' = [op |-> "visit", found_it |-> r.v.found_it, calls |-> r.v.calls,
                          outcome |-> IF r.v.panicked THEN "panic" ELSE "Ok"]
              /\ parsed_module' = IF r.v.panicked THEN parsed_module ELSE r.n
              /\ pc' = IF r.v.panicked THEN "failed" ELSE "visited"
    /\ prev_module' = parsed_module
    /\ runs' = runs + 1
    /\ UNCHANGED <<options, infos, input, escaped>>

\* Preprocessor::locate.
Locate ==
    /\ pc = "input"
    /\ IF parsed_module.k = "ParseError"
       THEN /\ infos' = infos
            /\ last' = [op |-> "locate", outcome |-> "Err", error |-> parsed_module.error]
            /\ pc' = "failed"
       ELSE /\ infos' = locate(parsed_module)
            /\ last' = [op |-> "locate", outcome |-> "Ok"]
            /\ pc' = "located"
    /\ prev_module' = parsed_module
    /\ UNCHANGED <<parsed_module, options, runs, input, escaped>>

\* escape_template_literal on a string of its own.
Escape ==
    /\ pc = "text"
    /\ escaped' = escape_template_literal(input)
    /\ pc' = "escaped"
    /\ UNCHANGED <<parsed_module, prev_module, options, runs, last, infos, input>>

Next == Process \/ Visit \/ Locate \/ Escape

Spec == Init /\ [][Next]_vars

\* ------------------------------------------------------------------ claims

\* The template occurrences of a tree (no two of one file share a span).
RECURSIVE TagsOf(_)
TagsOf(n) ==
    IF n.k \in {"ContentTagExpression", "ContentTagMember"} THEN {n}
    ELSE UNION {TagsOf(Kids(n)[i]) : i \in 1..Len(Kids(n))}

\* The name a named specifier imports: its alias target, or its own name.
ImportedName(sp) ==
    IF sp.imported.k = "ExportNameIdent" THEN sp.imported.sym
    ELSE IF sp.imported.k = "ExportNameStr" THEN sp.imported.value
    ELSE sp.local.sym

ImportItems(m) == {i \in 1..Len(m.body) : m.body[i].k = "Import"}
NumImports(m) == Cardinality(ImportItems(m))

\* The places <<item, specifier>> of the named specifiers that import the target
\* name from the target module at the top level of a module.
MatchingSpecifiers(m) ==
    UNION {{<<i, j>> : j \in {jj \in 1..Len(m.body[i].specifiers) :
                                /\ m.body[i].specifiers[jj].k = "ImportNamed"
                                /\ ImportedName(m.body[i].specifiers[jj]) = target_specifier}} :
           i \in {ii \in ImportItems(m) : m.body[ii].src = target_module}}

\* The call sites the rewrite makes: calls whose second argument is a scope-capture object.
RECURSIVE RewrittenCalls(_)
RewrittenCalls(n) ==
    (IF n.k = "Call" /\ Len(n.args) = 2 /\ n.args[2].k = "Object" THEN {n} ELSE {})
    \cup UNION {RewrittenCalls(Kids(n)[i]) : i \in 1..Len(Kids(n))}

\* C1: process adds exactly one import declaration, at index 0 of the body, when the
\* file holds at least one occurrence and no named specifier imports the target name
\* from the target module; otherwise it adds none.  The number of occurrences does
\* not matter.
C1_OneImportWhenNeeded ==
    pc = "processed" =>
        LET need == TagsOf(prev_module) # {} /\ MatchingSpecifiers(prev_module) = {}
            first == parsed_module.body[1]
        IN  /\ NumImports(parsed_module) - NumImports(prev_module) = (IF need THEN 1 ELSE 0)
            /\ Len(parsed_module.body) - Len(prev_module.body) = (IF need THEN 1 ELSE 0)
            /\ need => /\ first.k = "Import"
                       /\ first.src = target_module
                       /\ Len(first.specifiers) = 1
                       /\ first.specifiers[1].k = "ImportNamed"
                       /\ ImportedName(first.specifiers[1]) = target_specifier
                       /\ \A c \in RewrittenCalls(parsed_module) :
                             c.callee = first.specifiers[1].local

\* A file of several occurrences and no import of the target got its one import.
C1_Witness ==
    /\ pc = "processed"
    /\ Cardinality(TagsOf(prev_module)) >= 2
    /\ MatchingSpecifiers(prev_module) = {}
    /\ NumImports(parsed_module) = NumImports(prev_module) + 1

\* C2: when a top-level import of the target module has a named specifier importing
\* the target name, process inserts no import, leaves the import declarations as
\* they were (no specifier renamed, none added), and every rewritten call site calls
\* the local name of such a specifier.
C2_ExistingImportReused ==
    (pc = "processed" /\ runs = 1 /\ MatchingSpecifiers(prev_module) # {}) =>
        /\ Len(parsed_module.body) = Len(prev_module.body)
        /\ ImportItems(parsed_module) = ImportItems(prev_module)
        /\ MatchingSpecifiers(parsed_module) = MatchingSpecifiers(prev_module)
        /\ \A i \in ImportItems(prev_module) :
              /\ parsed_module.body[i].src = prev_module.body[i].src
              /\ Len(parsed_module.body[i].specifiers) = Len(prev_module.body[i].specifiers)
              /\ \A j \in 1..Len(prev_module.body[i].specifiers) :
                    parsed_module.body[i].specifiers[j].local
                        = prev_module.body[i].specifiers[j].local
        /\ \E ij \in MatchingSpecifiers(prev_module) :
              \A c \in RewrittenCalls(parsed_module) :
                 c.callee = prev_module.body[ij[1]].specifiers[ij[2]].local

\* A file importing the target under an alias was rewritten to call the alias.
C2_Witness ==
    /\ pc = "processed"
    /\ runs = 1
    /\ \E ij \in MatchingSpecifiers(prev_module) :
          prev_module.body[ij[1]].specifiers[ij[2]].local.sym # target_specifier
    /\ RewrittenCalls(parsed_module) # {}

\* C3: on a module without any occurrence the visitor changes no node and leaves the
\* flag false, and process inserts no import.
C3_NoOccurrenceNoChange ==
    (TagsOf(prev_module) = {} /\ runs = 1) =>
        /\ pc = "visited" => parsed_module = prev_module /\ ~last.found_it.flag
        /\ pc = "processed" => /\ last.rewritten = prev_module
                               /\ ~last.needs_import
                               /\ NumImports(parsed_module) = NumImports(prev_module)
                               /\ Len(parsed_module.body) = Len(prev_module.body)

\* A file without occurrences and without an import of the target went through process.
C3_Witness ==
    /\ pc = "processed"
    /\ runs = 1
    /\ TagsOf(prev_module) = {}
    /\ prev_module.body # <<>>
    /\ MatchingSpecifiers(prev_module) = {}

\* C4: after the visitor no occurrence is left anywhere in the tree, and the flag it
\* was given is true exactly when the tree held an occurrence.
C4_AllOccurrencesReplaced ==
    /\ pc = "visited" =>
          /\ TagsOf(parsed_module) = {}
          /\ last.found_it.some => (last.found_it.flag <=> TagsOf(prev_module) # {})
    /\ pc = "processed" =>
          /\ TagsOf(last.rewritten) = {}
          /\ last.needs_import <=> TagsOf(prev_module) # {}

\* A module whose only occurrence is a class member nested in a class was visited.
C4_Witness ==
    /\ pc = "visited"
    /\ last.found_it.some
    /\ last.found_it.flag
    /\ \A t \in TagsOf(prev_module) : t.k = "ContentTagMember"

\* The tree the visitor left: the module after Visit, the module before hygiene
\* without the import process inserted after Process.
VisitorOutput ==
    IF pc = "visited" THEN parsed_module
    ELSE IF Len(last.rewritten.body) > Len(prev_module.body)
         THEN [last.rewritten EXCEPT !.body = Tail(@)]
         ELSE last.rewritten

\* A module item that is exactly an expression statement holding one occurrence.
IsBareOccurrence(item) == item.k = "ExprStmt" /\ item.expr.k = "ContentTagExpression"

\* The default-export declarations of a tree.
RECURSIVE DefaultExportsOf(_)
DefaultExportsOf(n) ==
    (IF n.k = "ExportDefaultExpr" THEN {n} ELSE {})
    \cup UNION {DefaultExportsOf(Kids(n)[i]) : i \in 1..Len(Kids(n))}

\* The default exports below the items of the outermost module body.
NestedDefaultExports(m) ==
    UNION {UNION {DefaultExportsOf(Kids(m.body[i])[j]) : j \in 1..Len(Kids(m.body[i]))} :
           i \in 1..Len(m.body)}

\* The bare occurrence statements that are statements of a block.
RECURSIVE BlocksWithBareStatement(_)
BlocksWithBareStatement(n) ==
    (IF n.k = "Block" /\ \E i \in 1..Len(n.stmts) : IsBareOccurrence(n.stmts[i])
     THEN {n} ELSE {})
    \cup UNION {BlocksWithBareStatement(Kids(n)[i]) : i \in 1..Len(Kids(n))}

\* The top-level half of C5: every bare occurrence statement of the outermost body
\* has become a default export of a call, none is left an expression statement.
TopLevelPromoted ==
    \A i \in 1..Len(prev_module.body) :
        IsBareOccurrence(prev_module.body[i]) =>
            /\ VisitorOutput.body[i].k = "ExportDefaultExpr"
            /\ VisitorOutput.body[i].expr.k = "Call"

\* C5: a bare occurrence statement of the outermost module body becomes a default
\* export of the call, and only there: below the outermost body no default export
\* is made (a bare occurrence statement nested in a block stays an expression
\* statement, now of the call).
C5_PromotionOnlyAtModuleBody ==
    (pc \in {"visited", "processed"} /\ runs = 1) =>
        /\ TopLevelPromoted
        /\ NestedDefaultExports(VisitorOutput) = {}

\* What the code does keep of C5: promotion at the top level, and none inside blocks.
C5_PromotionAtTopNotInBlocks ==
    (pc \in {"visited", "processed"} /\ runs = 1) =>
        /\ TopLevelPromoted
        /\ \A e \in NestedDefaultExports(VisitorOutput) :
              \E i \in 1..Len(VisitorOutput.body) :
                  /\ VisitorOutput.body[i].k = "TsModule"
                  /\ e \in DefaultExportsOf(VisitorOutput.body[i])
        /\ BlocksWithBareStatement(prev_module) # {} =>
              \E i \in 1..Len(VisitorOutput.body) :
                  /\ VisitorOutput.body[i].k = "Block"
                  /\ VisitorOutput.body[i].stmts[1].k = "ExprStmt"
                  /\ VisitorOutput.body[i].stmts[1].expr.k = "Call"

Range(f) == {f[i] : i \in DOMAIN f}

\* A call of id with the content literal and a scope-capture object, with or without
\* the component member.
IsTemplateCall(c, id, with_component) ==
    /\ c.k = "Call"
    /\ c.callee = id
    /\ Len(c.args) = 2
    /\ c.args[1].k = "Tpl"
    /\ c.args[2].k = "Object"
    /\ "eval" \in Range(c.args[2].props)
    /\ ("component" \in Range(c.args[2].props)) <=> with_component

\* b is a with its occurrences rewritten into calls of id, each by its own kind, and
\* nothing else changed.
RECURSIVE RewriteOf(_, _, _)
RewriteOf(a, b, id) ==
    IF a.k = "ContentTagExpression" THEN IsTemplateCall(b, id, FALSE)
    ELSE IF a.k = "ContentTagMember"
    THEN /\ b.k = "StaticBlock"
         /\ Len(b.body.stmts) = 1
         /\ b.body.stmts[1].k = "ExprStmt"
         /\ IsTemplateCall(b.body.stmts[1].expr, id, TRUE)
    ELSE IF IsBareOccurrence(a)
    THEN /\ b.k \in {"ExprStmt", "ExportDefaultExpr"}
         /\ IsTemplateCall(b.expr, id, FALSE)
    ELSE /\ b.k = a.k
         /\ Len(Kids(b)) = Len(Kids(a))
         /\ b = WithKids(a, Kids(b))
         /\ \A i \in 1..Len(Kids(a)) : RewriteOf(Kids(a)[i], Kids(b)[i], id)

\* C6: a class-member occurrence becomes one static block whose single statement
\* calls the target with two arguments, the second holding eval and component; an
\* expression occurrence becomes a call whose second argument holds eval and no
\* component; which of the two depends on the occurrence's own kind alone.
C6_RewriteByOwnKind ==
    (pc \in {"visited", "processed"} /\ runs = 1) =>
        RewriteOf(prev_module, VisitorOutput,
                  IF pc = "visited" THEN Ident("template") ELSE last.id)

\* A file with an expression occurrence inside a class property and a class-member
\* occurrence inside a class expression was rewritten.
C6_Witness ==
    /\ pc = "visited"
    /\ runs = 1
    /\ \E i \in 1..Len(prev_module.body) :
          /\ prev_module.body[i].k = "VarDecl"
          /\ prev_module.body[i].init.k = "Class"
          /\ \E t \in TagsOf(prev_module.body[i]) : t.k = "ContentTagExpression"
    /\ \E i \in 1..Len(prev_module.body) :
          /\ prev_module.body[i].k = "Block"
          /\ \E t \in TagsOf(prev_module.body[i]) : t.k = "ContentTagMember"

\* Each character escaped on its own.
EscapeChar(c) ==
    IF c \in {BACKSLASH, BACKTICK, DOLLAR} THEN <<BACKSLASH, c>> ELSE <<c>>

RECURSIVE EscapeEach(_)
EscapeEach(s) == IF s = <<>> THEN <<>> ELSE EscapeChar(Head(s)) \o EscapeEach(Tail(s))

\* Read from the left, every backslash escapes the character after it, and no
\* backtick or dollar stands unescaped.
RECURSIVE WellEscaped(_)
WellEscaped(s) ==
    IF s = <<>> THEN TRUE
    ELSE IF Head(s) = BACKSLASH THEN Len(s) >= 2 /\ WellEscaped(Tail(Tail(s)))
    ELSE Head(s) \notin {BACKTICK, DOLLAR} /\ WellEscaped(Tail(s))

\* What a template literal with this raw text evaluates to; backslash n is a newline.
RECURSIVE Cooked(_)
Cooked(s) ==
    IF s = <<>> THEN <<>>
    ELSE IF Head(s) = BACKSLASH /\ Len(s) >= 2
    THEN <<IF s[2] = "n" THEN "newline" ELSE s[2]>> \o Cooked(Tail(Tail(s)))
    ELSE <<Head(s)>> \o Cooked(Tail(s))

\* C7: escape_template_literal turns each backslash, backtick and dollar into a
\* backslash followed by that character and changes nothing else: the backslashes
\* it introduces are not doubled, a written backslash n stays backslash n and never
\* becomes a newline, and no backtick or dollar of the output is unescaped.
C7_EscapeThreeCharacters ==
    pc = "escaped" =>
        /\ escaped = EscapeEach(input)
        /\ WellEscaped(escaped)
        /\ Cooked(escaped) = input
        /\ "newline" \notin Range(Cooked(escaped))

\* A string with a backslash before an n and a backtick was escaped.
C7_Witness ==
    /\ pc = "escaped"
    /\ input = <<BACKSLASH, "n", BACKTICK>>
    /\ escaped = <<BACKSLASH, BACKSLASH, "n", BACKSLASH, BACKTICK>>

\* The module declares a function of this name at its top level.
TopLevelFunctionNamed(m, sym) ==
    \E i \in 1..Len(m.body) : m.body[i].k = "FnDecl" /\ m.body[i].ident.sym = sym

\* Some function of the tree has a parameter of this name and an occurrence in its body.
RECURSIVE ParamInScopeOfOccurrence(_, _)
ParamInScopeOfOccurrence(n, sym) ==
    \/ /\ n.k \in {"Fn", "FnDecl"}
       /\ \E i \in 1..Len(n.params) : n.params[i].sym = sym
       /\ TagsOf(n) # {}
    \/ \E i \in 1..Len(Kids(n)) : ParamInScopeOfOccurrence(Kids(n)[i], sym)

\* The file is rewritten, has no import of the target, and binds the target name itself.
CollisionCase ==
    /\ pc = "processed"
    /\ runs = 1
    /\ TagsOf(prev_module) # {}
    /\ MatchingSpecifiers(prev_module) = {}
    /\ \/ TopLevelFunctionNamed(prev_module, target_specifier)
       \/ ParamInScopeOfOccurrence(prev_module, target_specifier)

\* C8: when the file has no import of the target and binds the target name itself
\* (a top-level function, or a parameter in scope of an occurrence), the inserted
\* import's local name is the target name with the least numeric suffix no
\* identifier of the file uses, every rewritten call site calls that name, and
\* every identifier the file had keeps its name and its place.
C8_CollisionRenamesImport ==
    CollisionCase =>
        LET sp == parsed_module.body[1].specifiers[1]
            used == {i.sym : i \in IdentsOf(prev_module)}
        IN  /\ ImportedName(sp) = target_specifier
            /\ sp.local.sym \notin used
            /\ \E n \in 1..(Cardinality(used) + 1) :
                  /\ sp.local.sym = target_specifier \o ToString(n)
                  /\ \A j \in 1..(n - 1) : (target_specifier \o ToString(j)) \in used
            /\ RewrittenCalls(parsed_module) # {}
            /\ \A c \in RewrittenCalls(parsed_module) : c.callee = sp.local
            /\ IdentsOf(parsed_module) = IdentsOf(prev_module) \cup {sp.local}
            /\ last.hygienic.body[1].specifiers[1].local.sym = sp.local.sym
            /\ RewriteOf(prev_module, [last.hygienic EXCEPT !.body = Tail(@)],
                         last.hygienic.body[1].specifiers[1].local)

\* A file declaring function template got its import as template1, and its
\* occurrence calls template1.
C8_Witness ==
    /\ CollisionCase
    /\ TopLevelFunctionNamed(prev_module, target_specifier)
    /\ parsed_module.body[1].specifiers[1].local.sym = "template1"
    /\ \E c \in RewrittenCalls(parsed_module) : c.callee.sym = "template1"

C10_SecondRunIsNoOp ==
    runs >= 2 =>
        /\ pc = "visited" => parsed_module = prev_module /\ ~last.found_it.flag
        /\ pc = "processed" => /\ last.rewritten = prev_module
                               /\ ~last.needs_import
                               /\ NumImports(parsed_module) = NumImports(prev_module)
                               /\ parsed_module = prev_module

\* A rewritten file that got its import was processed a second time.
C10_Witness ==
    /\ runs = 2
    /\ pc = "processed"
    /\ RewrittenCalls(prev_module) # {}
    /\ MatchingSpecifiers(prev_module) # {}


\* A name as it is written in an import specifier: an identifier, or a string
\* literal between quotes.
NameText(n) ==
    IF n.k = "ExportNameStr" THEN [quoted |-> TRUE, text |-> n.value]
    ELSE [quoted |-> FALSE, text |-> n.sym]

TextuallyIdentical(sp) ==
    /\ sp.k = "ImportNamed"
    /\ sp.imported # None
    /\ NameText(sp.imported) = NameText(sp.local)

ExpectedRaw(raw) ==
    IF options.transformer # None
    THEN EscapeEach(call_transformer(options.transformer.f, raw))
    ELSE EscapeEach(raw)

\* How many times the transformer was called with s.
TimesCalledWith(s) == Cardinality({i \in DOMAIN last.calls : last.calls[i] = s})

\* C12: a configured content transformer is called exactly once for each rewritten
\* occurrence, with its raw content as written, and the literal holds the escaped
\* form of what it returned; with none configured nothing is called and the literal
\* holds the escaped raw content.  The same on every rewrite path: an expression, a
\* class member, a statement promoted to a default export.
C12_TransformerOnceBeforeEscaping ==
    pc \in {"visited", "processed"} =>
        /\ \A t \in TagsOf(prev_module) :
              /\ Cardinality({c \in RewrittenCalls(VisitorOutput) : c.span = t.span}) = 1
              /\ \A c \in RewrittenCalls(VisitorOutput) :
                    c.span = t.span =>
                        /\ c.args[1].k = "Tpl"
                        /\ Len(c.args[1].quasis) = 1
                        /\ c.args[1].quasis[1].raw = ExpectedRaw(t.contents.value)
        /\ IF options.transformer # None
           THEN /\ Len(last.calls) = Cardinality(TagsOf(prev_module))
                /\ \A t \in TagsOf(prev_module) :
                      TimesCalledWith(t.contents.value) =
                        Cardinality({u \in TagsOf(prev_module) :
                                        u.contents.value = t.contents.value})
           ELSE last.calls = <<>>

\* A file with an occurrence on each path (a promoted statement, a nested expression
\* and a class member), rewritten with a transformer configured.
C12_Witness ==
    /\ pc = "processed"
    /\ options.transformer # None
    /\ Len(last.calls) = 3
    /\ \E i \in 1..Len(prev_module.body) :
          /\ IsBareOccurrence(prev_module.body[i])
          /\ parsed_module.body[i + 1].k = "ExportDefaultExpr"
    /\ \E t \in TagsOf(prev_module) : t.k = "ContentTagMember"
    /\ \E t \in TagsOf(prev_module) :
          /\ t.k = "ContentTagExpression"
          /\ \A i \in 1..Len(prev_module.body) : prev_module.body[i] # ExprStmt(t)

\* The configured transformer fails on the content of some occurrence of the tree.
TransformerFailsOn(m) ==
    /\ options.transformer # None
    /\ \E t \in TagsOf(m) : transformer_panics(options.transformer.f, t.contents.value)

\* C13: process gives the text of a fully rewritten module or no output at all.  A
\* source the parser rejects gives the parser's error and nothing that import
\* resolution, the rewrite, import insertion, hygiene or simplification compute; a
\* transformer that throws or returns a value that is not text gives no output; and
\* an output holds no occurrence, each one being a call with its literal.
C13_NoPartialOutput ==
    last.op = "process" =>
        /\ last.outcome = (IF prev_module.k = "ParseError" THEN "Err"
                           ELSE IF TransformerFailsOn(prev_module) THEN "panic"
                           ELSE "Ok")
        /\ last.outcome = "Ok" =>
              /\ pc = "processed"
              /\ parsed_module = last.output
              /\ TagsOf(last.output) = {}
              /\ \A t \in TagsOf(prev_module) :
                    \E c \in RewrittenCalls(last.output) :
                        c.span = t.span /\ c.args[1].k = "Tpl"
        /\ last.outcome # "Ok" =>
              /\ pc = "failed"
              /\ last.output = None
              /\ parsed_module = prev_module
        /\ last.outcome = "Err" =>
              /\ last.error = prev_module.error
              /\ last.calls = <<>>
              /\ DOMAIN last = {"op", "outcome", "error", "calls", "output"}

\* A file whose first occurrence was rewritten before the transformer failed on the
\* second: process has given no output.
C13_Witness ==
    /\ last.op = "process"
    /\ last.outcome = "panic"
    /\ Len(last.calls) >= 2
    /\ ~transformer_panics(options.transformer.f, last.calls[1])

\* A source the parser rejects, handed to process.
C13_ParseErrorReached ==
    /\ last.op = "process"
    /\ last.outcome = "Err"

====
